---- MODULE Spec2Model ----
(***************************************************************************)
(* Model of ocflib/account/submission.py: the Celery tasks create_account, *)
(* approve_request and reject_request over the table of stored account     *)
(* requests.  Every task invocation is a job; a job advances one           *)
(* statement group at a time (one database statement, one call to an       *)
(* external collaborator), so jobs on different workers interleave.        *)
(***************************************************************************)
EXTENDS Integers, Sequences, FiniteSets, TLC

\* Number of task invocations in a run: every invocation counts, and an
\* approve_request counts the create_account it enqueues from its start.
MaxJobs == 2

\* Python's None where a row, a request or a response is expected
None == [none |-> TRUE]

\* nothing has been evaluated directly
NoCall == [fn |-> "none"]

\* no exception has been raised
NoException == "-"

\* NewAccountRequest.WARNINGS_* (handle_warnings modes)
WARNINGS_CREATE == "WARNINGS_CREATE"
WARNINGS_SUBMIT == "WARNINGS_SUBMIT"
WARNINGS_WARN == "WARNINGS_WARN"
Modes == {WARNINGS_CREATE, WARNINGS_SUBMIT, WARNINGS_WARN}

\* NewAccountResponse statuses
CREATED == "created"
FLAGGED == "flagged"
PENDING == "pending"
REJECTED == "rejected"

\* NewAccountResponse(status, errors)
NewAccountResponse(status, errors) == [status |-> status, errors |-> errors]

\* NewAccountRequest._fields
RequestFields ==
    {"user_name", "real_name", "is_group", "calnet_uid", "callink_oid",
     "email", "encrypted_password", "handle_warnings"}

\* StoredNewAccountRequest.__table__.columns
Columns ==
    {"id", "user_name", "real_name", "is_group", "calnet_uid", "callink_oid",
     "email", "encrypted_password"}

\* The account descriptions front-ends submit (each with any mode).
Accounts ==
    { [user_name |-> "alice", real_name |-> "Alice A", is_group |-> FALSE,
       calnet_uid |-> 999, callink_oid |-> 0, email |-> "alice@ocf",
       encrypted_password |-> "pwA"],
      [user_name |-> "bob", real_name |-> "Bob B", is_group |-> FALSE,
       calnet_uid |-> 999, callink_oid |-> 0, email |-> "bob@ocf",
       encrypted_password |-> "pwB"] }

WithMode(a, mode) ==
    [f \in RequestFields |-> IF f = "handle_warnings" THEN mode ELSE a[f]]

Requests == { WithMode(a, m) : a \in Accounts, m \in Modes }

UserNames == { a.user_name : a \in Accounts }

\* What validate_request may return: (errors, warnings), each an ordered list.
ErrorLists == { <<>>, <<"e1">> }
WarningLists == { <<>>, <<"w1">> }

\* from_request with the two identity columns filled from each other's field
from_request_swapped(request) ==
    [id |-> 0,
     user_name |-> request.user_name,
     real_name |-> request.real_name,
     is_group |-> request.is_group,
     calnet_uid |-> request.callink_oid,
     callink_oid |-> request.calnet_uid,
     email |-> request.email,
     encrypted_password |-> request.encrypted_password]

\* StoredNewAccountRequest.from_request: the row before the store gives it an id
from_request(request) ==
    [id |-> 0,
     user_name |-> request.user_name,
     real_name |-> request.real_name,
     is_group |-> request.is_group,
     calnet_uid |-> request.calnet_uid,
     callink_oid |-> request.callink_oid,
     email |-> request.email,
     encrypted_password |-> request.encrypted_password]

\* to_request copying every column of the row, its id with them
to_request_all_columns(row, handle_warnings) ==
    [f \in (Columns \cup {"handle_warnings"}) |->
        IF f = "handle_warnings" THEN handle_warnings ELSE row[f]]

\* StoredNewAccountRequest.to_request(handle_warnings)
to_request(row, handle_warnings) ==
    [f \in ((RequestFields \cap Columns) \cup {"handle_warnings"}) |->
        IF f = "handle_warnings" THEN handle_warnings ELSE row[f]]

\* to_request() defaulting to the mode of the original submission
to_request_resubmit(row) == to_request(row, WARNINGS_SUBMIT)

\* to_request() defaulting to WARNINGS_WARN
to_request_warn(row) == to_request(row, WARNINGS_WARN)

\* to_request() with the default argument
to_request_default(row) == to_request(row, WARNINGS_CREATE)

\* The row as the store holds it: the autoincrement primary key filled in.
WithId(row, id) == [row EXCEPT !.id = id]

\* session.add(row); session.commit(): the table with the row added
add(rows, row) == rows \cup {row}

\* session.delete(row) never committed
delete_uncommitted(rows, row) == rows

\* session.delete(row); session.commit(): DELETE .. WHERE id = row.id, which
\* matches no row when another session has deleted it already
delete(rows, row) == rows \ {row}

\* a user_name column declared without unique=True
NoUniqueIndex(rows, row) == FALSE

\* The unique index on user_name: does inserting row violate it?
UniqueViolation(rows, row) == \E r \in rows : r.user_name = row.user_name

\* query(StoredNewAccountRequest).filter(user_name == ..).first()
first_by_user_name(rows, user_name) ==
    IF \E r \in rows : r.user_name = user_name
    THEN CHOOSE r \in rows : r.user_name = user_name
    ELSE None

\* username_pending(session, request)
username_pending(rows, request) ==
    \E r \in rows : r.user_name = request.user_name

\* user_has_request_pending without the test for CalLink OID 0
user_has_request_pending_any_oid(rows, request) ==
    LET query == IF request.is_group THEN "callink_oid" ELSE "calnet_uid"
    IN  \E r \in rows : r[query] = request[query]

\* user_has_request_pending without its branch for individuals
user_has_request_pending_groups_only(rows, request) ==
    LET query == IF request.is_group /\ request.callink_oid # 0
                 THEN "callink_oid" ELSE "None"
    IN  /\ query # "None"
        /\ \E r \in rows : r[query] = request[query]

\* user_has_request_pending(session, request): query is the column compared,
\* or stays None
user_has_request_pending(rows, request) ==
    LET query == IF request.is_group /\ request.callink_oid # 0
                 THEN "callink_oid"
                 ELSE IF ~request.is_group THEN "calnet_uid" ELSE "None"
    IN  /\ query # "None"
        /\ \E r \in rows : r[query] = request[query]

\* get_pending_requests with first() for all()
get_first_pending(rows) ==
    IF rows = {} THEN {} ELSE {CHOOSE r \in rows : TRUE}

\* get_pending_requests(): session.query(StoredNewAccountRequest).all()
get_pending_requests(rows) == rows

\* Route with the warnings inspected before the errors
RouteWarningsFirst(errors, warnings, handle_warnings) ==
    IF warnings # <<>> /\ handle_warnings = WARNINGS_SUBMIT THEN "submit"
    ELSE IF warnings # <<>> /\ handle_warnings = WARNINGS_WARN THEN "flag"
    ELSE IF errors # <<>> THEN "reject"
    ELSE "create"

\* Route without its WARNINGS_WARN branch
RouteWithoutWarn(errors, warnings, handle_warnings) ==
    IF errors # <<>> THEN "reject"
    ELSE IF warnings # <<>> /\ handle_warnings = WARNINGS_SUBMIT THEN "submit"
    ELSE "create"

\* Route that flags every warning it does not submit
RouteFlagsCreate(errors, warnings, handle_warnings) ==
    IF errors # <<>> THEN "reject"
    ELSE IF warnings # <<>> /\ handle_warnings = WARNINGS_SUBMIT THEN "submit"
    ELSE IF warnings # <<>> THEN "flag"
    ELSE "create"

\* The branch create_account takes once validate_request has returned.
Route(errors, warnings, handle_warnings) ==
    IF errors # <<>> THEN "reject"
    ELSE IF warnings # <<>> /\ handle_warnings = WARNINGS_SUBMIT THEN "submit"
    ELSE IF warnings # <<>> /\ handle_warnings = WARNINGS_WARN THEN "flag"
    ELSE "create"

RejectedResponse(errors, warnings) ==
    NewAccountResponse(REJECTED, errors \o warnings)

PendingResponse(warnings) == NewAccountResponse(PENDING, warnings)

FlaggedResponse(warnings) == NewAccountResponse(FLAGGED, warnings)

CreatedResponse == NewAccountResponse(CREATED, <<>>)

\* reject_request's reason
RejectReason == "TODO: come up with a reason"

\* report_status(start, stop, task): the two lines it adds to the status log
StartLine(start, task) == start \o " " \o task
StopLine(stop, task) == stop \o " " \o task

VARIABLES
    jobs,         \* every task invocation, in the order it was enqueued
    store,        \* the rows of table 'request'
    nextId,       \* the table's autoincrement counter
    events,       \* what dispatch_event has sent, in order
    provisioned,  \* the calls of real_create_account, in order
    mails,        \* the calls of send_rejected_mail, in order
    call          \* the last query or conversion evaluated directly

vars == <<jobs, store, nextId, events, provisioned, mails, call>>

JobIds == 1..Len(jobs)

NewJob(kind, request, user_name, parent) ==
    [kind |-> kind, request |-> request, user_name |-> user_name,
     parent |-> parent, pc |-> "queued", errors |-> <<>>, warnings |-> <<>>,
     status |-> <<>>, row |-> None, response |-> None, exception |-> NoException]

\* Invocations a call accounts for: approve_request enqueues one create_account.
Slots(kind) == IF kind = "approve_request" THEN 2 ELSE 1

\* create_account invocations that running approve_requests may still enqueue
Reserved ==
    Cardinality({ j \in JobIds :
        /\ jobs[j].kind = "approve_request"
        /\ jobs[j].pc \in {"fetched", "removed"} })

CanBegin(kind) == Len(jobs) + Reserved + Slots(kind) <= MaxJobs

Event(type, request, reasons, j) ==
    [type |-> type, request |-> request, reasons |-> reasons, job |-> j]

\* The row an earlier create_account left pending for user_name
PendingRow(user_name, id) ==
    LET a == CHOOSE a \in Accounts : a.user_name = user_name
    IN  WithId(from_request(WithMode(a, WARNINGS_SUBMIT)), id)

\* The table when the tasks are instantiated: it is durable, so it is empty
\* or holds the rows earlier invocations left pending.
InitialStores ==
    { {}, {PendingRow("alice", 1)}, {PendingRow("alice", 1), PendingRow("bob", 2)} }

Init ==
    /\ jobs = <<>>
    /\ store \in InitialStores
    /\ nextId = Cardinality(store) + 1
    /\ events = <<>>
    /\ provisioned = <<>>
    /\ mails = <<>>
    /\ call = NoCall

(***************************************************************************)
(* create_account(request)                                                 *)
(***************************************************************************)
\* A worker starts the create_account(request) a front-end sent:
\* entering report_status('Validating', 'Validated', 'account request')
CreateBegin(request) ==
    /\ CanBegin("create_account")
    /\ jobs' = Append(jobs,
          [NewJob("create_account", request, request.user_name, 0) EXCEPT
              !.pc = "validating",
              !.status = <<StartLine("Validating", "account request")>>])
    /\ UNCHANGED <<store, nextId, events, provisioned, mails, call>>

\* A worker starts a create_account that approve_request enqueued
CreateBeginEnqueued(j) ==
    /\ jobs[j].kind = "create_account"
    /\ jobs[j].pc = "queued"
    /\ jobs' = [jobs EXCEPT
          ![j].pc = "validating",
          ![j].status = <<StartLine("Validating", "account request")>>]
    /\ UNCHANGED <<store, nextId, events, provisioned, mails, call>>

\* validate_request returns (errors, warnings); the branch that follows, up
\* to its first store access, external call or return
CreateValidate(j, errors, warnings) ==
    /\ jobs[j].kind = "create_account"
    /\ jobs[j].pc = "validating"
    /\ LET validated == Append(jobs[j].status, StopLine("Validated", "account request"))
           route == Route(errors, warnings, jobs[j].request.handle_warnings)
           job == [jobs[j] EXCEPT !.errors = errors, !.warnings = warnings,
                                  !.status = validated]
       IN  jobs' = [jobs EXCEPT ![j] =
             CASE route = "reject" ->
                    [job EXCEPT !.pc = "done",
                                !.response = RejectedResponse(errors, warnings)]
               [] route = "flag" ->
                    [job EXCEPT !.pc = "done",
                                !.response = FlaggedResponse(warnings)]
               [] route = "submit" ->
                    [job EXCEPT !.pc = "submitting",
                                !.status = Append(validated,
                                    StartLine("Submitting", "account for staff approval"))]
               [] OTHER ->
                    [job EXCEPT !.pc = "provisioning"]]
    /\ UNCHANGED <<store, nextId, events, provisioned, mails, call>>

\* session.add(stored_request); session.commit()
CreateInsert(j) ==
    /\ jobs[j].kind = "create_account"
    /\ jobs[j].pc = "submitting"
    /\ LET stored_request == from_request(jobs[j].request)
       IN  IF UniqueViolation(store, stored_request)
           THEN /\ jobs' = [jobs EXCEPT ![j].pc = "failed",
                                        ![j].exception = "IntegrityError"]
                /\ UNCHANGED <<store, nextId>>
           ELSE /\ store' = add(store, WithId(stored_request, nextId))
                /\ nextId' = nextId + 1
                /\ jobs' = [jobs EXCEPT ![j].pc = "inserted",
                                        ![j].row = WithId(stored_request, nextId)]
    /\ UNCHANGED <<events, provisioned, mails, call>>

\* the return inside the with block taken to skip the stop line
CreatePublishSubmittedNoStop(j) ==
    /\ jobs[j].kind = "create_account"
    /\ jobs[j].pc = "inserted"
    /\ events' = Append(events,
          Event("ocflib.account_submitted", jobs[j].request, jobs[j].warnings, j))
    /\ jobs' = [jobs EXCEPT ![j].pc = "done",
                            ![j].response = PendingResponse(jobs[j].warnings)]
    /\ UNCHANGED <<store, nextId, provisioned, mails, call>>

\* dispatch_event('ocflib.account_submitted', ..); return PENDING, which
\* leaves report_status('Submitting', 'Submitted', ..)
CreatePublishSubmitted(j) ==
    /\ jobs[j].kind = "create_account"
    /\ jobs[j].pc = "inserted"
    /\ events' = Append(events,
          Event("ocflib.account_submitted", jobs[j].request, jobs[j].warnings, j))
    /\ jobs' = [jobs EXCEPT ![j].pc = "done",
                            ![j].response = PendingResponse(jobs[j].warnings),
                            ![j].status = Append(@,
                                StopLine("Submitted", "account for staff approval"))]
    /\ UNCHANGED <<store, nextId, provisioned, mails, call>>

\* real_create_account(request, credentials, report_status) returns
CreateProvision(j) ==
    /\ jobs[j].kind = "create_account"
    /\ jobs[j].pc = "provisioning"
    /\ provisioned' = Append(provisioned, [request |-> jobs[j].request, job |-> j])
    /\ jobs' = [jobs EXCEPT ![j].pc = "provisioned"]
    /\ UNCHANGED <<store, nextId, events, mails, call>>

\* the Provisioner's exception caught and noted, the invocation going on
CreateProvisionFailsSwallowed(j) ==
    /\ jobs[j].kind = "create_account"
    /\ jobs[j].pc = "provisioning"
    /\ provisioned' = Append(provisioned, [request |-> jobs[j].request, job |-> j])
    /\ jobs' = [jobs EXCEPT ![j].pc = "provisioned",
                            ![j].exception = "ProvisioningFailure"]
    /\ UNCHANGED <<store, nextId, events, mails, call>>

\* real_create_account(request, credentials, report_status) raises
CreateProvisionFails(j) ==
    /\ jobs[j].kind = "create_account"
    /\ jobs[j].pc = "provisioning"
    /\ provisioned' = Append(provisioned, [request |-> jobs[j].request, job |-> j])
    /\ jobs' = [jobs EXCEPT ![j].pc = "failed",
                            ![j].exception = "ProvisioningFailure"]
    /\ UNCHANGED <<store, nextId, events, mails, call>>

\* dispatch_event('ocflib.account_created', ..); return CREATED
CreatePublishCreated(j) ==
    /\ jobs[j].kind = "create_account"
    /\ jobs[j].pc = "provisioned"
    /\ events' = Append(events,
          Event("ocflib.account_created", jobs[j].request, <<>>, j))
    /\ jobs' = [jobs EXCEPT ![j].pc = "done", ![j].response = CreatedResponse]
    /\ UNCHANGED <<store, nextId, provisioned, mails, call>>

(***************************************************************************)
(* get_remove_row_by_user_name(user_name), as approve_request and          *)
(* reject_request call it                                                  *)
(***************************************************************************)
\* A worker starts approve_request(user_name) or reject_request(user_name):
\* request_row = session.query(..).filter(user_name == ..).first()
GetRow(kind, user_name) ==
    /\ CanBegin(kind)
    /\ jobs' = Append(jobs,
          [NewJob(kind, None, user_name, 0) EXCEPT
              !.pc = "fetched",
              !.row = first_by_user_name(store, user_name)])
    /\ UNCHANGED <<store, nextId, events, provisioned, mails, call>>

\* session.delete(request_row); session.commit(); request_row.to_request()
RemoveRow(j) ==
    /\ jobs[j].kind \in {"approve_request", "reject_request"}
    /\ jobs[j].pc = "fetched"
    /\ IF jobs[j].row = None
       THEN /\ jobs' = [jobs EXCEPT ![j].pc = "failed",
                                    ![j].exception = "UnmappedInstanceError"]
            /\ UNCHANGED store
       ELSE /\ store' = delete(store, jobs[j].row)
            /\ jobs' = [jobs EXCEPT ![j].pc = "removed",
                                    ![j].request = to_request_default(jobs[j].row)]
    /\ UNCHANGED <<nextId, events, provisioned, mails, call>>

(***************************************************************************)
(* approve_request(user_name)                                              *)
(***************************************************************************)
\* create_account.delay(request)
ApproveEnqueue(j) ==
    /\ jobs[j].kind = "approve_request"
    /\ jobs[j].pc = "removed"
    /\ jobs' = Append([jobs EXCEPT ![j].pc = "acted"],
                      NewJob("create_account", jobs[j].request,
                             jobs[j].request.user_name, j))
    /\ UNCHANGED <<store, nextId, events, provisioned, mails, call>>

\* create_account.delay(request) raises: the broker is unavailable
ApproveEnqueueFails(j) ==
    /\ jobs[j].kind = "approve_request"
    /\ jobs[j].pc = "removed"
    /\ jobs' = [jobs EXCEPT ![j].pc = "failed", ![j].exception = "DispatchFailure"]
    /\ UNCHANGED <<store, nextId, events, provisioned, mails, call>>

\* approve_request waiting for the result of the create_account it enqueued
\* before it publishes
ApprovePublishAfterCreate(j) ==
    /\ jobs[j].kind = "approve_request"
    /\ jobs[j].pc = "acted"
    /\ \A k \in JobIds : jobs[k].parent = j => jobs[k].pc = "done"
    /\ events' = Append(events,
          Event("ocflib.account_approved", jobs[j].request, <<>>, j))
    /\ jobs' = [jobs EXCEPT ![j].pc = "done"]
    /\ UNCHANGED <<store, nextId, provisioned, mails, call>>

\* dispatch_event('ocflib.account_approved', ..)
ApprovePublish(j) ==
    /\ jobs[j].kind = "approve_request"
    /\ jobs[j].pc = "acted"
    /\ events' = Append(events,
          Event("ocflib.account_approved", jobs[j].request, <<>>, j))
    /\ jobs' = [jobs EXCEPT ![j].pc = "done"]
    /\ UNCHANGED <<store, nextId, provisioned, mails, call>>

(***************************************************************************)
(* reject_request(user_name)                                               *)
(***************************************************************************)
\* send_rejected_mail(request, reason)
RejectNotify(j) ==
    /\ jobs[j].kind = "reject_request"
    /\ jobs[j].pc = "removed"
    /\ mails' = Append(mails,
          [request |-> jobs[j].request, reason |-> RejectReason, job |-> j])
    /\ jobs' = [jobs EXCEPT ![j].pc = "acted"]
    /\ UNCHANGED <<store, nextId, events, provisioned, call>>

\* the deletion undone when the notice fails
RejectNotifyFailsRollback(j) ==
    /\ jobs[j].kind = "reject_request"
    /\ jobs[j].pc = "removed"
    /\ store' = store \cup {jobs[j].row}
    /\ jobs' = [jobs EXCEPT ![j].pc = "failed", ![j].exception = "MailFailure"]
    /\ UNCHANGED <<nextId, events, provisioned, mails, call>>

\* send_rejected_mail(request, reason) raises
RejectNotifyFails(j) ==
    /\ jobs[j].kind = "reject_request"
    /\ jobs[j].pc = "removed"
    /\ jobs' = [jobs EXCEPT ![j].pc = "failed", ![j].exception = "MailFailure"]
    /\ UNCHANGED <<store, nextId, events, provisioned, mails, call>>

\* dispatch_event('ocflib.account_rejected', ..)
RejectPublish(j) ==
    /\ jobs[j].kind = "reject_request"
    /\ jobs[j].pc = "acted"
    /\ events' = Append(events,
          Event("ocflib.account_rejected", jobs[j].request, <<>>, j))
    /\ jobs' = [jobs EXCEPT ![j].pc = "done"]
    /\ UNCHANGED <<store, nextId, provisioned, mails, call>>

Next ==
    \/ \E request \in Requests : CreateBegin(request)
    \/ \E j \in JobIds : CreateBeginEnqueued(j)
    \/ \E j \in JobIds, errors \in ErrorLists, warnings \in WarningLists :
          CreateValidate(j, errors, warnings)
    \/ \E j \in JobIds : CreateInsert(j)
    \/ \E j \in JobIds : CreatePublishSubmitted(j)
    \/ \E j \in JobIds : CreateProvision(j)
    \/ \E j \in JobIds : CreateProvisionFails(j)
    \/ \E j \in JobIds : CreatePublishCreated(j)
    \/ \E user_name \in UserNames : GetRow("approve_request", user_name)
    \/ \E user_name \in UserNames : GetRow("reject_request", user_name)
    \/ \E j \in JobIds : RemoveRow(j)
    \/ \E j \in JobIds : ApproveEnqueue(j)
    \/ \E j \in JobIds : ApproveEnqueueFails(j)
    \/ \E j \in JobIds : ApprovePublish(j)
    \/ \E j \in JobIds : RejectNotify(j)
    \/ \E j \in JobIds : RejectNotifyFails(j)
    \/ \E j \in JobIds : RejectPublish(j)

Spec == Init /\ [][Next]_vars

(***************************************************************************)
(* The queries and conversions evaluated directly, over any table content: *)
(* username_pending, user_has_request_pending, get_pending_requests,       *)
(* from_request / to_request.  Other invocations insert and delete rows    *)
(* in between.                                                             *)
(***************************************************************************)
\* Highest id the table hands out in these runs
MaxRowId == 7

\* Account descriptions for the queries: individuals sharing a CalNet UID,
\* groups sharing a CalLink OID, groups with OID 0
QueryAccounts ==
    Accounts \cup
    { [user_name |-> "carol", real_name |-> "Carol C", is_group |-> FALSE,
       calnet_uid |-> 555, callink_oid |-> 0, email |-> "carol@ocf",
       encrypted_password |-> "pwC"],
      [user_name |-> "club", real_name |-> "Chess Club", is_group |-> TRUE,
       calnet_uid |-> 0, callink_oid |-> 7, email |-> "club@ocf",
       encrypted_password |-> "pwD"],
      [user_name |-> "band", real_name |-> "Band", is_group |-> TRUE,
       calnet_uid |-> 0, callink_oid |-> 7, email |-> "band@ocf",
       encrypted_password |-> "pwE"],
      [user_name |-> "solo", real_name |-> "Solo", is_group |-> TRUE,
       calnet_uid |-> 0, callink_oid |-> 0, email |-> "solo@ocf",
       encrypted_password |-> "pwF"] }

QueryRequests == { WithMode(a, m) : a \in QueryAccounts, m \in Modes }

\* The rows earlier submissions of these accounts left pending, ids 1..6
QueryRows ==
    LET id(a) ==
          CASE a.user_name = "alice" -> 1 [] a.user_name = "bob" -> 2
            [] a.user_name = "carol" -> 3 [] a.user_name = "club" -> 4
            [] a.user_name = "band" -> 5 [] OTHER -> 6
    IN  { WithId(from_request(WithMode(a, WARNINGS_SUBMIT)), id(a)) : a \in QueryAccounts }

InitQueries ==
    /\ jobs = <<>>
    /\ store \in SUBSET QueryRows
    /\ nextId = Cardinality(QueryRows) + 1
    /\ events = <<>>
    /\ provisioned = <<>>
    /\ mails = <<>>
    /\ call = NoCall

\* username_pending(session, request)
UsernamePending(request) ==
    /\ call' = [fn |-> "username_pending", request |-> request,
                result |-> username_pending(store, request)]
    /\ UNCHANGED <<jobs, store, nextId, events, provisioned, mails>>

\* user_has_request_pending(session, request)
UserHasRequestPending(request) ==
    /\ call' = [fn |-> "user_has_request_pending", request |-> request,
                result |-> user_has_request_pending(store, request)]
    /\ UNCHANGED <<jobs, store, nextId, events, provisioned, mails>>

\* get_pending_requests()
GetPendingRequests ==
    /\ call' = [fn |-> "get_pending_requests", request |-> None,
                result |-> get_pending_requests(store)]
    /\ UNCHANGED <<jobs, store, nextId, events, provisioned, mails>>

\* StoredNewAccountRequest.from_request(request), then to_request() and
\* to_request(handle_warnings) on the row
RoundTrip(request, handle_warnings) ==
    /\ LET row == from_request(request)
       IN  call' = [fn |-> "round_trip", request |-> request, row |-> row,
                    handle_warnings |-> handle_warnings,
                    back |-> to_request_default(row),
                    tagged |-> to_request(row, handle_warnings)]
    /\ UNCHANGED <<jobs, store, nextId, events, provisioned, mails>>

\* another create_account commits its row (session.add; session.commit)
RowInserted(a) ==
    /\ nextId <= MaxRowId
    /\ LET row == from_request(WithMode(a, WARNINGS_SUBMIT))
       IN  /\ ~UniqueViolation(store, row)
           /\ store' = add(store, WithId(row, nextId))
    /\ nextId' = nextId + 1
    /\ call' = NoCall
    /\ UNCHANGED <<jobs, events, provisioned, mails>>

\* another approve_request / reject_request commits its delete
RowDeleted(row) ==
    /\ row \in store
    /\ store' = delete(store, row)
    /\ call' = NoCall
    /\ UNCHANGED <<jobs, nextId, events, provisioned, mails>>

NextQueries ==
    \/ \E request \in QueryRequests : UsernamePending(request)
    \/ \E request \in QueryRequests : UserHasRequestPending(request)
    \/ GetPendingRequests
    \/ \E request \in QueryRequests, m \in Modes : RoundTrip(request, m)
    \/ \E a \in QueryAccounts : RowInserted(a)
    \/ \E row \in store : RowDeleted(row)

SpecQueries == InitQueries /\ [][NextQueries]_vars

(***************************************************************************)
(* What one invocation has done                                            *)
(***************************************************************************)
CreateJobs == { j \in JobIds : jobs[j].kind = "create_account" }
ApproveJobs == { j \in JobIds : jobs[j].kind = "approve_request" }
RejectJobs == { j \in JobIds : jobs[j].kind = "reject_request" }

\* validate_request has returned to invocation j
Validated(j) == jobs[j].pc \notin {"queued", "validating"}

EventsBy(j) == LET by(e) == e.job = j IN SelectSeq(events, by)
ProvisionedBy(j) == LET by(c) == c.job = j IN SelectSeq(provisioned, by)
MailsBy(j) == LET by(m) == m.job = j IN SelectSeq(mails, by)
EnqueuedBy(j) == { k \in JobIds : jobs[k].parent = j }

\* no store write, no event, no Provisioner call by invocation j
NoEffects(j) ==
    /\ jobs[j].row = None
    /\ EventsBy(j) = <<>>
    /\ ProvisionedBy(j) = <<>>

(***************************************************************************)
(* C1: whatever the handle_warnings mode, a create_account whose           *)
(* validation returned errors has returned REJECTED with errors followed   *)
(* by warnings, and has inserted no row, called no Provisioner and         *)
(* published no event.                                                     *)
(***************************************************************************)
C1_FatalErrorsRejected ==
    \A j \in CreateJobs :
        (Validated(j) /\ jobs[j].errors # <<>>) =>
            /\ jobs[j].pc = "done"
            /\ jobs[j].exception = NoException
            /\ jobs[j].response =
                  [status |-> REJECTED, errors |-> jobs[j].errors \o jobs[j].warnings]
            /\ NoEffects(j)

\* errors and warnings together, under the mode that would otherwise submit
C1_Witness ==
    \E j \in CreateJobs :
        /\ jobs[j].pc = "done"
        /\ jobs[j].errors = <<"e1">>
        /\ jobs[j].warnings = <<"w1">>
        /\ jobs[j].request.handle_warnings = WARNINGS_SUBMIT
        /\ jobs[j].response.errors = <<"e1", "w1">>

(***************************************************************************)
(* C3: a create_account with no errors, some warnings and mode WARN has    *)
(* returned FLAGGED with the warnings, and has inserted no row, called no  *)
(* Provisioner and published no event.                                     *)
(***************************************************************************)
C3_WarnFlagged ==
    \A j \in CreateJobs :
        ( /\ Validated(j)
          /\ jobs[j].errors = <<>>
          /\ jobs[j].warnings # <<>>
          /\ jobs[j].request.handle_warnings = WARNINGS_WARN ) =>
            /\ jobs[j].pc = "done"
            /\ jobs[j].exception = NoException
            /\ jobs[j].response = [status |-> FLAGGED, errors |-> jobs[j].warnings]
            /\ NoEffects(j)

\* a flagged request while the table holds rows
C3_Witness ==
    \E j \in CreateJobs :
        /\ jobs[j].pc = "done"
        /\ jobs[j].request.handle_warnings = WARNINGS_WARN
        /\ jobs[j].response = [status |-> FLAGGED, errors |-> <<"w1">>]
        /\ store # {}

(***************************************************************************)
(* C4: a create_account with no errors and either no warnings or mode      *)
(* CREATE goes to the Provisioner and never inserts a row; once the        *)
(* Provisioner has returned it has been called exactly once, and the       *)
(* invocation ends with exactly one account_created event and CREATED      *)
(* with an empty message list.                                             *)
(***************************************************************************)
C4_CreateProvisionsOnce ==
    \A j \in CreateJobs :
        ( /\ Validated(j)
          /\ jobs[j].errors = <<>>
          /\ (jobs[j].warnings = <<>> \/ jobs[j].request.handle_warnings = WARNINGS_CREATE) ) =>
            /\ jobs[j].pc \in {"provisioning", "provisioned", "done", "failed"}
            /\ jobs[j].row = None
            /\ jobs[j].pc = "provisioning" => ProvisionedBy(j) = <<>>
            /\ jobs[j].pc # "done" => (EventsBy(j) = <<>> /\ jobs[j].response = None)
            /\ jobs[j].pc \in {"provisioned", "done"} =>
                  /\ ProvisionedBy(j) = <<[request |-> jobs[j].request, job |-> j]>>
                  /\ jobs[j].exception = NoException
            /\ jobs[j].pc = "done" =>
                  /\ EventsBy(j) = <<[type |-> "ocflib.account_created",
                                      request |-> jobs[j].request,
                                      reasons |-> <<>>, job |-> j]>>
                  /\ jobs[j].response = [status |-> CREATED, errors |-> <<>>]
            /\ jobs[j].pc = "failed" => jobs[j].exception = "ProvisioningFailure"

\* a forced creation: warnings present, mode CREATE, account created
C4_Witness ==
    \E j \in CreateJobs :
        /\ jobs[j].pc = "done"
        /\ jobs[j].warnings = <<"w1">>
        /\ jobs[j].request.handle_warnings = WARNINGS_CREATE
        /\ jobs[j].response.status = CREATED
        /\ Len(ProvisionedBy(j)) = 1

(***************************************************************************)
(* C2: a create_account with no errors, some warnings and mode SUBMIT.     *)
(***************************************************************************)
Submitting(j) ==
    /\ Validated(j)
    /\ jobs[j].errors = <<>>
    /\ jobs[j].warnings # <<>>
    /\ jobs[j].request.handle_warnings = WARNINGS_SUBMIT

SameAccount(row, request) ==
    /\ row.user_name = request.user_name
    /\ row.real_name = request.real_name
    /\ row.is_group = request.is_group
    /\ row.calnet_uid = request.calnet_uid
    /\ row.callink_oid = request.callink_oid
    /\ row.email = request.email
    /\ row.encrypted_password = request.encrypted_password

SubmittedEvent(j) ==
    [type |-> "ocflib.account_submitted", request |-> jobs[j].request,
     reasons |-> jobs[j].warnings, job |-> j]

\* C2, as stated: every such invocation ends with one row stored, PENDING
\* returned and account_submitted published once.
C2_SubmitAlwaysStores ==
    \A j \in CreateJobs :
        (Submitting(j) /\ jobs[j].pc \in {"done", "failed"}) =>
            /\ jobs[j].pc = "done"
            /\ jobs[j].row # None
            /\ SameAccount(jobs[j].row, jobs[j].request)
            /\ jobs[j].response = [status |-> PENDING, errors |-> jobs[j].warnings]
            /\ EventsBy(j) = <<SubmittedEvent(j)>>
            /\ ProvisionedBy(j) = <<>>

\* C2, amended: such an invocation never calls the Provisioner.  Its insert
\* adds exactly one row, with the request's fields, when no row with the
\* username is stored at that moment; it then publishes account_submitted
\* once, with the warnings as reasons, and returns PENDING with the
\* warnings.  When the store rejects the insert the invocation ends with
\* no row added, no event published and no PENDING returned.
C2_SubmitState ==
    \A j \in CreateJobs :
        Submitting(j) =>
            /\ jobs[j].pc \in {"submitting", "inserted", "done", "failed"}
            /\ ProvisionedBy(j) = <<>>
            /\ jobs[j].pc \in {"submitting", "failed"} => NoEffects(j)
            /\ jobs[j].pc # "done" => jobs[j].response = None
            /\ jobs[j].pc \in {"inserted", "done"} =>
                  /\ jobs[j].row # None
                  /\ SameAccount(jobs[j].row, jobs[j].request)
                  /\ jobs[j].row.id > 0
            /\ jobs[j].pc = "inserted" => EventsBy(j) = <<>>
            /\ jobs[j].pc = "done" =>
                  /\ EventsBy(j) = <<SubmittedEvent(j)>>
                  /\ jobs[j].response = [status |-> PENDING, errors |-> jobs[j].warnings]

C2_InsertStep ==
    \A j \in CreateJobs :
        (jobs[j].pc = "submitting" /\ jobs'[j].pc # "submitting") =>
            IF \E r \in store : r.user_name = jobs[j].request.user_name
            THEN jobs'[j].pc = "failed" /\ store' = store
            ELSE /\ jobs'[j].pc = "inserted"
                 /\ jobs'[j].row \notin store
                 /\ store' = store \cup {jobs'[j].row}

\* C2, amended: the states of a SUBMIT invocation and its insert step, as
\* described above C2_SubmitState
C2_SubmitStoresOneRow == [](C2_SubmitState) /\ [][C2_InsertStep]_vars

\* a submitted request, stored next to another user's row
C2_Witness ==
    \E j \in CreateJobs :
        /\ jobs[j].pc = "done"
        /\ jobs[j].response = [status |-> PENDING, errors |-> <<"w1">>]
        /\ jobs[j].row \in store
        /\ Cardinality(store) = 2

(***************************************************************************)
(* C5: no two rows of the table have the same user_name, however the       *)
(* invocations interleave.                                                 *)
(***************************************************************************)
C5_UserNameUnique ==
    \A r1, r2 \in store : r1.user_name = r2.user_name => r1 = r2

\* two SUBMIT invocations for one username, both past validation before
\* either inserts: one has stored its row, the other's insert was refused
C5_Witness ==
    \E j1, j2 \in CreateJobs :
        /\ j1 # j2
        /\ jobs[j1].request.user_name = jobs[j2].request.user_name
        /\ jobs[j1].row \in store
        /\ jobs[j1].row.id = 1
        /\ jobs[j2].pc = "failed"
        /\ jobs[j2].exception = "IntegrityError"

(***************************************************************************)
(* approve_request / reject_request                                        *)
(***************************************************************************)
DecisionJobs == ApproveJobs \cup RejectJobs

\* invocation j has acted on its row: enqueued create_account, or sent the
\* rejection notice
Acted(j) == jobs[j].pc \in {"acted", "done"}

\* the request to_request() must rebuild from a row
Rebuilt(row) ==
    [user_name |-> row.user_name, real_name |-> row.real_name,
     is_group |-> row.is_group, calnet_uid |-> row.calnet_uid,
     callink_oid |-> row.callink_oid, email |-> row.email,
     encrypted_password |-> row.encrypted_password,
     handle_warnings |-> WARNINGS_CREATE]

(***************************************************************************)
(* C6: of the approve_request / reject_request invocations for one stored  *)
(* row, at most one acts on it; every other one finds no row and fails.    *)
(***************************************************************************)
\* C6, as stated: two invocations that read the same row never both act
C6_AtMostOneActs ==
    \A j1, j2 \in DecisionJobs :
        (j1 # j2 /\ jobs[j1].row # None /\ jobs[j1].row = jobs[j2].row) =>
            ~(Acted(j1) /\ Acted(j2))

(***************************************************************************)
(* C7: approve_request / reject_request for a username with no stored row  *)
(* fails with a NotFound error and changes nothing.                        *)
(***************************************************************************)
\* an invocation that found no row has no effect
MissingRowNoEffect ==
    \A j \in DecisionJobs :
        jobs[j].row = None =>
            /\ jobs[j].pc \in {"fetched", "failed"}
            /\ jobs[j].request = None
            /\ EnqueuedBy(j) = {}
            /\ MailsBy(j) = <<>>
            /\ EventsBy(j) = <<>>

MissingRowStep ==
    \A j \in DecisionJobs :
        (jobs[j].row = None /\ jobs'[j] # jobs[j]) => store' = store

\* the part of C7 that does not name the error: no effect, store unchanged
MissingRowFailsWithoutEffect == [](MissingRowNoEffect) /\ [][MissingRowStep]_vars

\* C7, as stated: the failure is a NotFound error, and nothing has changed
C7_MissingRowNotFound ==
    \A j \in DecisionJobs :
        (jobs[j].row = None /\ jobs[j].pc = "failed") =>
            /\ jobs[j].exception = "NotFound"
            /\ MissingRowNoEffect

(***************************************************************************)
(* C8: approve_request that finds a row deletes exactly that row, enqueues *)
(* exactly one create_account for the request rebuilt from the row with    *)
(* mode CREATE, publishes exactly one account_approved and sends no        *)
(* rejection notice.                                                       *)
(***************************************************************************)
ApprovedEvent(j) ==
    [type |-> "ocflib.account_approved", request |-> Rebuilt(jobs[j].row),
     reasons |-> <<>>, job |-> j]

C8_ApproveState ==
    \A j \in ApproveJobs :
        jobs[j].row # None =>
            /\ MailsBy(j) = <<>>
            /\ ProvisionedBy(j) = <<>>
            /\ jobs[j].pc \in {"removed", "acted", "done"} =>
                  /\ jobs[j].row \notin store
                  /\ jobs[j].request = Rebuilt(jobs[j].row)
            /\ ~Acted(j) => EnqueuedBy(j) = {}
            /\ Acted(j) =>
                  /\ Cardinality(EnqueuedBy(j)) = 1
                  /\ \A k \in EnqueuedBy(j) :
                        /\ jobs[k].kind = "create_account"
                        /\ jobs[k].request = Rebuilt(jobs[j].row)
            /\ jobs[j].pc # "done" => EventsBy(j) = <<>>
            /\ jobs[j].pc = "done" => EventsBy(j) = <<ApprovedEvent(j)>>

C8_ApproveRemoveStep ==
    \A j \in ApproveJobs :
        (jobs[j].pc = "fetched" /\ jobs'[j].pc = "removed") =>
            store' = store \ {jobs[j].row}

\* C8: what an approve_request that found a row has done at each point,
\* and that its delete removes that row and no other
C8_ApproveRemovesAndEnqueues == [](C8_ApproveState) /\ [][C8_ApproveRemoveStep]_vars

\* an approval completed while another user's row stays pending
C8_Witness ==
    \E j \in ApproveJobs :
        /\ jobs[j].pc = "done"
        /\ jobs[j].row # None
        /\ store = {PendingRow("bob", 2)}
        /\ \E k \in EnqueuedBy(j) : jobs[k].request.user_name = "alice"

(***************************************************************************)
(* C9: reject_request that finds a row deletes exactly that row, calls the *)
(* Notifier exactly once with the request rebuilt from the row and a       *)
(* reason, publishes exactly one account_rejected, and neither enqueues    *)
(* create_account nor calls the Provisioner.                               *)
(***************************************************************************)
RejectedEvent(j) ==
    [type |-> "ocflib.account_rejected", request |-> Rebuilt(jobs[j].row),
     reasons |-> <<>>, job |-> j]

C9_RejectState ==
    \A j \in RejectJobs :
        jobs[j].row # None =>
            /\ EnqueuedBy(j) = {}
            /\ ProvisionedBy(j) = <<>>
            /\ jobs[j].pc \in {"removed", "acted", "done"} =>
                  /\ jobs[j].row \notin store
                  /\ jobs[j].request = Rebuilt(jobs[j].row)
            /\ ~Acted(j) => MailsBy(j) = <<>>
            /\ Acted(j) =>
                  MailsBy(j) = <<[request |-> Rebuilt(jobs[j].row),
                                  reason |-> "TODO: come up with a reason",
                                  job |-> j]>>
            /\ jobs[j].pc # "done" => EventsBy(j) = <<>>
            /\ jobs[j].pc = "done" => EventsBy(j) = <<RejectedEvent(j)>>

C9_RejectRemoveStep ==
    \A j \in RejectJobs :
        (jobs[j].pc = "fetched" /\ jobs'[j].pc = "removed") =>
            store' = store \ {jobs[j].row}

\* C9: what a reject_request that found a row has done at each point,
\* and that its delete removes that row and no other
C9_RejectRemovesAndNotifies == [](C9_RejectState) /\ [][C9_RejectRemoveStep]_vars

\* a rejection completed while another user's row stays pending
C9_Witness ==
    \E j \in RejectJobs :
        /\ jobs[j].pc = "done"
        /\ jobs[j].row = PendingRow("alice", 1)
        /\ store = {PendingRow("bob", 2)}
        /\ Len(MailsBy(j)) = 1

(***************************************************************************)
(* C10: when the store refuses the insert of the SUBMIT path, the          *)
(* invocation returns a response that carries the store's error in its     *)
(* error list; no exception leaves the invocation.                         *)
(***************************************************************************)
\* C10, as stated: a SUBMIT invocation that ended without storing its row
\* returned a response with the error in it
C10_StoreErrorReturned ==
    \A j \in CreateJobs :
        (Submitting(j) /\ jobs[j].pc \in {"done", "failed"} /\ jobs[j].row = None) =>
            /\ jobs[j].pc = "done"
            /\ jobs[j].exception = NoException
            /\ jobs[j].response # None
            /\ jobs[j].response.errors # <<>>

(***************************************************************************)
(* C11: from_request followed by to_request gives back the request's       *)
(* username, real name, is-group flag, CalNet UID, CalLink OID, email and  *)
(* encrypted password and nothing else; handle_warnings is CREATE by       *)
(* default whatever the request's mode was, and the mode given otherwise.  *)
(***************************************************************************)
C11_RoundTrip ==
    call.fn = "round_trip" =>
        /\ SameAccount(call.back, call.request)
        /\ call.back = [call.request EXCEPT !.handle_warnings = WARNINGS_CREATE]
        /\ SameAccount(call.tagged, call.request)
        /\ call.tagged = [call.request EXCEPT !.handle_warnings = call.handle_warnings]

\* a group request submitted with mode WARN comes back with mode CREATE, and
\* with mode SUBMIT when that is asked for
C11_Witness ==
    /\ call.fn = "round_trip"
    /\ call.request.is_group
    /\ call.request.callink_oid = 7
    /\ call.request.handle_warnings = WARNINGS_WARN
    /\ call.back.handle_warnings = WARNINGS_CREATE
    /\ call.tagged.handle_warnings = WARNINGS_SUBMIT

(***************************************************************************)
(* C12: for every table content and request, username_pending is true      *)
(* exactly when some row has the request's username;                       *)
(* user_has_request_pending is true exactly when the request is a group    *)
(* request with a nonzero CalLink OID that some row has, or an individual  *)
(* request whose CalNet UID some row has; it is false for every group      *)
(* request with OID 0.                                                     *)
(***************************************************************************)
C12_DedupPredicates ==
    /\ call.fn = "username_pending" =>
          (call.result <=>
              {r \in store : r.user_name = call.request.user_name} # {})
    /\ call.fn = "user_has_request_pending" =>
          /\ call.result <=>
                \/ /\ call.request.is_group
                   /\ call.request.callink_oid # 0
                   /\ {r \in store : r.callink_oid = call.request.callink_oid} # {}
                \/ /\ ~call.request.is_group
                   /\ {r \in store : r.calnet_uid = call.request.calnet_uid} # {}
          /\ (call.request.is_group /\ call.request.callink_oid = 0) => ~call.result

\* a group request with OID 0 is not pending although rows with OID 0 are stored
C12_Witness ==
    /\ call.fn = "user_has_request_pending"
    /\ call.request.is_group
    /\ call.request.callink_oid = 0
    /\ \E r \in store : r.callink_oid = 0
    /\ ~call.result

\* a group request whose OID another group's row has is pending
C12_WitnessGroup ==
    /\ call.fn = "user_has_request_pending"
    /\ call.request.user_name = "band"
    /\ store = {CHOOSE r \in QueryRows : r.user_name = "club"}
    /\ call.result
    /\ ~username_pending(store, call.request)

(***************************************************************************)
(* C13: while the row a create_account stored for an individual is in the  *)
(* table (from its insert until approve_request or reject_request deletes  *)
(* it), user_has_request_pending is true for every individual request      *)
(* with the row's CalNet UID, whatever its username.                       *)
(***************************************************************************)
C13_PendingWhileStored ==
    \A j \in CreateJobs :
        (jobs[j].row \in store /\ ~jobs[j].row.is_group) =>
            \A q \in Requests :
                (~q.is_group /\ q.calnet_uid = jobs[j].row.calnet_uid) =>
                    user_has_request_pending(store, q)

\* alice's row is the only one stored, by an invocation of this run, and a
\* request of the same person under the username bob exists
C13_Witness ==
    \E j \in CreateJobs :
        /\ jobs[j].pc = "done"
        /\ jobs[j].row \in store
        /\ store = {jobs[j].row}
        /\ jobs[j].row.user_name = "alice"
        /\ \E q \in Requests :
              /\ q.user_name = "bob"
              /\ q.calnet_uid = jobs[j].row.calnet_uid
              /\ user_has_request_pending(store, q)
              /\ ~username_pending(store, q)

(***************************************************************************)
(* C14: username_pending, user_has_request_pending and                     *)
(* get_pending_requests are read-only: a call changes neither the table    *)
(* nor the invocations nor the events; a call repeated with no insert or   *)
(* delete in between returns what the call before it returned; and         *)
(* get_pending_requests returns exactly the rows the table holds.          *)
(***************************************************************************)
Queries == {"username_pending", "user_has_request_pending", "get_pending_requests"}

C14_QueryStep ==
    call'.fn \in Queries =>
        /\ store' = store
        /\ nextId' = nextId
        /\ jobs' = jobs
        /\ events' = events
        /\ (call.fn = call'.fn /\ call.request = call'.request) =>
              call'.result = call.result
        /\ call'.fn = "get_pending_requests" => call'.result = store'

C14_QueriesReadOnly == [][C14_QueryStep]_vars

\* get_pending_requests has returned the three rows the table holds
C14_Witness ==
    /\ call.fn = "get_pending_requests"
    /\ Cardinality(store) = 3
    /\ call.result = store

(***************************************************************************)
(* C15: approve_request does not wait for the create_account it enqueued:  *)
(* once it has enqueued it, it can publish account_approved and complete   *)
(* whatever the enqueued invocation is doing, and once completed it stays  *)
(* completed, with its event, whatever becomes of that invocation.         *)
(***************************************************************************)
C15_CanComplete ==
    \A j \in ApproveJobs : jobs[j].pc = "acted" => ENABLED ApprovePublish(j)

C15_StaysComplete ==
    \A j \in ApproveJobs :
        jobs[j].pc = "done" =>
            /\ jobs'[j] = jobs[j]
            /\ \E i \in 1..Len(events') : events'[i] = ApprovedEvent(j)

\* C15: the two parts above
C15_ApproveFireAndForget == [](C15_CanComplete) /\ [][C15_StaysComplete]_vars

\* approve_request has completed and published; the create_account it
\* enqueued has not started
C15_Witness ==
    \E j \in ApproveJobs :
        /\ jobs[j].pc = "done"
        /\ EventsBy(j) = <<ApprovedEvent(j)>>
        /\ \E k \in EnqueuedBy(j) : jobs[k].pc = "queued"

\* approve_request completed; the create_account it enqueued failed in the
\* Provisioner, or ended REJECTED
C15_WitnessChildFailed ==
    \E j \in ApproveJobs :
        /\ jobs[j].pc = "done"
        /\ \E k \in EnqueuedBy(j) :
              \/ jobs[k].pc = "failed"
              \/ (jobs[k].pc = "done" /\ jobs[k].response.status = REJECTED)

(***************************************************************************)
(* C16: when the Provisioner fails, the create_account invocation fails:   *)
(* it returns no response, publishes no event, has called the Provisioner  *)
(* once and no more, and leaves the table as it was.                       *)
(***************************************************************************)
C16_FailedState ==
    \A j \in CreateJobs :
        jobs[j].exception = "ProvisioningFailure" =>
            /\ jobs[j].pc = "failed"
            /\ jobs[j].response = None
            /\ EventsBy(j) = <<>>
            /\ Len(ProvisionedBy(j)) = 1
            /\ jobs[j].row = None

C16_FailedStep ==
    \A j \in CreateJobs :
        /\ (jobs[j].pc = "provisioning" /\ jobs'[j].pc = "failed") => store' = store
        /\ jobs[j].pc = "failed" => jobs'[j] = jobs[j]

\* C16: the two parts above
C16_ProvisionerFailureFailsJob == [](C16_FailedState) /\ [][C16_FailedStep]_vars

\* a forced creation whose Provisioner call failed, rows pending in the table
C16_Witness ==
    \E j \in CreateJobs :
        /\ jobs[j].pc = "failed"
        /\ jobs[j].exception = "ProvisioningFailure"
        /\ jobs[j].warnings = <<"w1">>
        /\ Cardinality(store) = 2

(***************************************************************************)
(* C17: the status log of a create_account only grows by appending; its    *)
(* first line is 'Validating account request'; a stop line ('Validated     *)
(* ..', 'Submitted ..') comes only after its start line; 'Submitted        *)
(* account for staff approval' is the last line when PENDING is returned;  *)
(* and the returned status follows from the validation result and          *)
(* handle_warnings alone.                                                  *)
(***************************************************************************)
StatusFor(errors, warnings, handle_warnings) ==
    IF errors # <<>> THEN REJECTED
    ELSE IF warnings # <<>> /\ handle_warnings = WARNINGS_SUBMIT THEN PENDING
    ELSE IF warnings # <<>> /\ handle_warnings = WARNINGS_WARN THEN FLAGGED
    ELSE CREATED

After(log, start, stop) ==
    \A i \in 1..Len(log) : log[i] = stop => \E k \in 1..(i - 1) : log[k] = start

C17_LogState ==
    \A j \in CreateJobs :
        LET log == jobs[j].status
        IN  /\ jobs[j].pc = "queued" <=> log = <<>>
            /\ log # <<>> => log[1] = "Validating account request"
            /\ After(log, "Validating account request", "Validated account request")
            /\ After(log, "Submitting account for staff approval",
                          "Submitted account for staff approval")
            /\ jobs[j].response # None =>
                  /\ jobs[j].response.status =
                        StatusFor(jobs[j].errors, jobs[j].warnings,
                                  jobs[j].request.handle_warnings)
                  /\ jobs[j].response.status = PENDING <=>
                        log[Len(log)] = "Submitted account for staff approval"

C17_LogStep ==
    \A j \in CreateJobs :
        /\ Len(jobs'[j].status) >= Len(jobs[j].status)
        /\ SubSeq(jobs'[j].status, 1, Len(jobs[j].status)) = jobs[j].status

\* C17: the two parts above
C17_StatusLog == [](C17_LogState) /\ [][C17_LogStep]_vars

\* the whole log of an invocation that returned PENDING
C17_Witness ==
    \E j \in CreateJobs :
        /\ jobs[j].response # None
        /\ jobs[j].response.status = PENDING
        /\ jobs[j].status = << "Validating account request",
                               "Validated account request",
                               "Submitting account for staff approval",
                               "Submitted account for staff approval" >>

(***************************************************************************)
(* C18: the create_account that approve_request enqueues carries           *)
(* handle_warnings = CREATE, so whatever validation returns it ends        *)
(* REJECTED, CREATED or failed in the Provisioner, never PENDING or        *)
(* FLAGGED, and it inserts no row.                                         *)
(***************************************************************************)
C18_ApprovedNeverPending ==
    \A k \in CreateJobs :
        jobs[k].parent # 0 =>
            /\ jobs[jobs[k].parent].kind = "approve_request"
            /\ jobs[k].request.handle_warnings = WARNINGS_CREATE
            /\ jobs[k].pc \notin {"submitting", "inserted"}
            /\ jobs[k].row = None
            /\ jobs[k].response # None =>
                  jobs[k].response.status \in {REJECTED, CREATED}
            /\ jobs[k].pc = "failed" => jobs[k].exception = "ProvisioningFailure"
            /\ \A i \in 1..Len(events) :
                  events[i].job = k => events[i].type = "ocflib.account_created"

\* the enqueued create_account got warnings again and created the account
C18_Witness ==
    \E k \in CreateJobs :
        /\ jobs[k].parent # 0
        /\ jobs[k].warnings = <<"w1">>
        /\ jobs[k].pc = "done"
        /\ jobs[k].response.status = CREATED
        /\ jobs[jobs[k].parent].row \notin store

(***************************************************************************)
(* C19: an event is published only after the change it announces           *)
(* (account_submitted after the insert, account_created after the          *)
(* Provisioner returned, account_approved after the delete and the         *)
(* enqueue, account_rejected after the delete and the notice), so the      *)
(* events of each type never outnumber the completed changes of that kind. *)
(***************************************************************************)
EventsOfType(type) == LET of(e) == e.type = type IN SelectSeq(events, of)

\* rows deleted so far: ids are handed out in sequence and never reused
RowsDeleted == (nextId - 1) - Cardinality(store)

\* every published event comes after its invocation's change
C19_EventOrder ==
    \A i \in 1..Len(events) :
        LET e == events[i]
            j == e.job
        IN  /\ e.type = "ocflib.account_submitted" => jobs[j].row # None
            /\ e.type = "ocflib.account_created" => Len(ProvisionedBy(j)) = 1
            /\ e.type = "ocflib.account_approved" =>
                  (jobs[j].row \notin store /\ EnqueuedBy(j) # {})
            /\ e.type = "ocflib.account_rejected" =>
                  (jobs[j].row \notin store /\ MailsBy(j) # <<>>)

\* the events of a type do not outnumber the changes of that kind
C19_EventCounts ==
    /\ Len(EventsOfType("ocflib.account_submitted")) <=
          Cardinality({ j \in CreateJobs : jobs[j].row # None })
    /\ Len(EventsOfType("ocflib.account_created")) <=
          Cardinality({ j \in CreateJobs : jobs[j].pc \in {"provisioned", "done"}
                                            /\ ProvisionedBy(j) # <<>> })
    /\ Len(EventsOfType("ocflib.account_approved")) <=
          Cardinality({ k \in CreateJobs : jobs[k].parent # 0 })
    /\ Len(EventsOfType("ocflib.account_rejected")) <= Len(mails)
    /\ Len(EventsOfType("ocflib.account_approved"))
          + Len(EventsOfType("ocflib.account_rejected")) <= RowsDeleted

\* C19, as stated: events after their changes, and never more events than
\* changes
C19_EventsFollowChanges == C19_EventOrder /\ C19_EventCounts

(***************************************************************************)
(* C20: in approve_request and reject_request the deletion is committed    *)
(* before the follow-up and never undone: when the enqueue or the notice   *)
(* fails, the job has failed with its row gone from the store and no       *)
(* account_approved / account_rejected event, and a retry that finds no    *)
(* row with that username fails too.                                       *)
(***************************************************************************)
FollowUpFailed(j) ==
    /\ jobs[j].pc = "failed"
    /\ jobs[j].exception \in {"DispatchFailure", "MailFailure"}

\* a later invocation of the same task for the same username
RetryOf(k, j) ==
    /\ k > j
    /\ jobs[k].kind = jobs[j].kind
    /\ jobs[k].user_name = jobs[j].user_name

C20_FailedState ==
    \A j \in DecisionJobs :
        /\ jobs[j].pc \in {"removed", "acted", "done"} => jobs[j].row \notin store
        /\ FollowUpFailed(j) =>
              /\ jobs[j].row # None
              /\ jobs[j].row \notin store
              /\ EventsBy(j) = <<>>
              /\ EnqueuedBy(j) = {}
              /\ MailsBy(j) = <<>>
              /\ \A k \in DecisionJobs : (RetryOf(k, j) /\ jobs[k].row = None) =>
                    /\ jobs[k].pc \in {"fetched", "failed"}
                    /\ jobs[k].pc = "failed" =>
                          jobs[k].exception = "UnmappedInstanceError"
                    /\ NoEffects(k)

C20_FailedStep ==
    \A j \in DecisionJobs :
        \* the follow-up comes after the committed deletion
        /\ (jobs[j].pc = "removed" /\ jobs'[j] # jobs[j]) =>
              (jobs[j].row \notin store /\ store' = store)
        /\ FollowUpFailed(j) =>
              \* the failed job stays failed and its row stays deleted
              /\ jobs'[j] = jobs[j]
              /\ jobs[j].row \notin store'
              \* a retry reads no row unless the username was submitted again
              /\ (Len(jobs') = Len(jobs) + 1
                    /\ jobs'[Len(jobs')].kind = jobs[j].kind
                    /\ jobs'[Len(jobs')].user_name = jobs[j].user_name
                    /\ ~username_pending(store, [user_name |-> jobs[j].user_name]))
                 => jobs'[Len(jobs')].row = None
              /\ Len(jobs') = Len(jobs) + 1 => jobs'[Len(jobs')].row # jobs[j].row
              \* and its only step is to fail
              /\ \A k \in DecisionJobs :
                    (RetryOf(k, j) /\ jobs[k].row = None /\ jobs'[k] # jobs[k]) =>
                        (jobs'[k].pc = "failed" /\ store' = store)

C20_DeleteNotUndone == [](C20_FailedState) /\ [][C20_FailedStep]_vars

\* a reject_request whose notice failed, and its retry that failed on the
\* absent row
C20_Witness ==
    \E j \in RejectJobs : \E k \in RejectJobs :
        /\ FollowUpFailed(j)
        /\ jobs[j].row \notin store
        /\ RetryOf(k, j)
        /\ jobs[k].row = None
        /\ jobs[k].pc = "failed"

====
